---- MODULE Spec2Model ----
(***************************************************************************)
(* contrib-stats (src/src/main.py): per-author change statistics over a    *)
(* set of repositories.  One run of main() is modelled as a state machine  *)
(* over a record holding the interpreter's state: the control point, the   *)
(* locals of main(), the open handles, the text the run has written and    *)
(* the remote queries it has issued.                                       *)
(*                                                                         *)
(* `run' is the run under observation.  `twin' is a second run of the same *)
(* program that is given the same arguments, the same files, the same      *)
(* remote data in the same order and the same signal, and differs only in  *)
(* the --silent flag.  Every action applies the same handler to both.      *)
(*                                                                         *)
(* Text that the program takes apart (file names, the output path, the     *)
(* configured file types) is a sequence of one-character strings.          *)
(***************************************************************************)
EXTENDS Integers, Sequences, FiniteSets, TLC

VARIABLES args, env, run, twin

vars == <<args, env, run, twin>>

(***************************************************************************)
(* Bounds of the model.                                                    *)
(***************************************************************************)
\* the longest `stats' list of a configuration document
MaxStats == 2
\* the wall clock (datetime.now()) of the run; commit times lie below it
Now == 3

\* datetime.fromtimestamp(0)
Epoch == 0

(***************************************************************************)
(* Text.                                                                   *)
(***************************************************************************)
DASH == "-"
TS == <<"t", "s">>
PY == <<"p", "y">>
TOML == <<"t", "o", "m", "l">>
JSON == <<"j", "s", "o", "n">>
CSV == <<"c", "s", "v">>

OUT_STDOUT == <<"-">>
OUT_TOML == <<"o", ".">> \o TOML
OUT_JSON == <<"o", ".">> \o JSON
OUT_CSV == <<"o", ".", "v", ".">> \o CSV
OUT_TXT == <<"o", ".", "t", "x", "t">>

OutputNames == {OUT_STDOUT, OUT_TOML, OUT_JSON, OUT_CSV, OUT_TXT}

Max(S) == CHOOSE m \in S : \A n \in S : n <= m

\* str.split(".")[-1]: what follows the last "." of the text, the whole text
\* when it holds none
split_last(text) ==
    LET dots == {i \in 1..Len(text) : text[i] = "."}
    IN  IF dots = {} THEN text ELSE SubSeq(text, Max(dots) + 1, Len(text))

\* x in list
contains(list, x) == \E i \in 1..Len(list) : list[i] = x

Digits == <<"0", "1", "2", "3", "4", "5", "6", "7", "8", "9">>

RECURSIVE str(_)
\* str(n) of a non-negative int: its decimal digits
str(n) == IF n < 10 THEN <<Digits[n + 1]>>
          ELSE str(n \div 10) \o <<Digits[(n % 10) + 1]>>

(***************************************************************************)
(* dict: insertion-ordered, a sequence of [k, v] entries with distinct k.  *)
(***************************************************************************)
keys(d) == {d[i].k : i \in 1..Len(d)}

getitem(d, k) == d[CHOOSE i \in 1..Len(d) : d[i].k = k].v

\* d[k] = v: a present key keeps its place, a new one is appended
setitem(d, k, v) ==
    IF k \in keys(d)
    THEN [i \in 1..Len(d) |-> IF d[i].k = k THEN [k |-> k, v |-> v] ELSE d[i]]
    ELSE Append(d, [k |-> k, v |-> v])

\* trygetitem that gives up after the first table
trygetitem_first_only(tables, item, default) ==
    IF tables # <<>> /\ item \in DOMAIN Head(tables)
    THEN Head(tables)[item]
    ELSE default

RECURSIVE trygetitem(_, _, _)
\* the item of the first table that has it, the default when none has
trygetitem(tables, item, default) ==
    IF tables = <<>> THEN default
    ELSE IF item \in DOMAIN Head(tables) THEN Head(tables)[item]
    ELSE trygetitem(Tail(tables), item, default)

\* addornewitem that assigns where it should add
addornewitem_replace(table, item, value) == setitem(table, item, value)

\* table[item] += value, or table[item] = value for a new item
addornewitem(table, item, value) ==
    IF item \in keys(table)
    THEN setitem(table, item, getitem(table, item) + value)
    ELSE setitem(table, item, value)

(***************************************************************************)
(* The remote: the repositories github.get_repo resolves and the commits   *)
(* repo.get_commits yields.                                                *)
(***************************************************************************)
R1 == "Vendicated/Vencord"
R2 == "k01e-01/contrib-stats"
GONE == "gone/missing"

F(name, changes) == [filename |-> name, changes |-> changes]

Commits(repo) ==
    IF repo = R1 THEN
      << [time |-> 1, hasAuthor |-> TRUE, hasName |-> TRUE, name |-> "Bob",
          files |-> <<F(<<"x", ".">> \o TS, 4), F(<<"y", ".">> \o PY, 9)>>],
         [time |-> 1, hasAuthor |-> FALSE, hasName |-> FALSE, name |-> "",
          files |-> <<F(<<"z", ".">> \o TS, 2)>>],
         [time |-> 2, hasAuthor |-> TRUE, hasName |-> TRUE, name |-> "Alice",
          files |-> <<F(<<"w", ".">> \o TS, 5)>>] >>
    ELSE IF repo = R2 THEN
      << [time |-> 0, hasAuthor |-> TRUE, hasName |-> FALSE, name |-> "",
          files |-> <<F(<<"z", ".">> \o TS, 2)>>],
         [time |-> 2, hasAuthor |-> TRUE, hasName |-> TRUE, name |-> "Alice",
          files |-> <<F(TS, 1), F(<<"a", ".", "b", ".">> \o TS, 3),
                      F(<<"p", "y", ".">>, 7)>>] >>
    ELSE <<>>

\* github.get_repo(repo_str) raises GithubException for a repository that
\* does not exist or cannot be read
resolves(repo) == repo \in {R1, R2}

\* repo.get_commits(since=start, until=end): the commits of the window
get_commits(repo, since, until) ==
    {c \in 1..Len(Commits(repo)) :
        since <= Commits(repo)[c].time /\ Commits(repo)[c].time < until}

(***************************************************************************)
(* Configuration documents.                                                *)
(***************************************************************************)
\* toml.loads(DEFAULT_INPUT)
DEFAULT_INPUT ==
    [env |-> ".env",
     default |-> <<>>,
     stats |-> << [label |-> "vencord", repos |-> <<R1>>, filetypes |-> <<TS>>,
                   start_date |-> 1, end_date |-> 2] >>]

Fields == {"label", "repos", "filetypes", "start_date", "end_date"}

StatTables ==
    { [label |-> "a", repos |-> <<R1>>, filetypes |-> <<TS>>],
      [repos |-> <<R2, R1>>, filetypes |-> <<TS, PY>>, start_date |-> 2],
      [label |-> "b", repos |-> <<R2, GONE, R1>>],
      [label |-> "a", filetypes |-> <<PY>>, end_date |-> 2] }

DefaultTables ==
    { <<>>,
      [label |-> "d", repos |-> <<R1>>, filetypes |-> <<TS>>,
       end_date |-> 2] }

RECURSIVE SeqsUpTo(_, _)
SeqsUpTo(S, n) ==
    IF n = 0 THEN {<<>>}
    ELSE LET shorter == SeqsUpTo(S, n - 1)
         IN  shorter \cup {Append(q, x) : q \in shorter, x \in S}

\* what toml.loads can return for a well-formed document
Documents ==
    {[default |-> d, stats |-> ss] :
        d \in DefaultTables, ss \in SeqsUpTo(StatTables, MaxStats)}
    \cup {[stats |-> ss] : ss \in SeqsUpTo(StatTables, 1)}
    \cup {[env |-> ".env", default |-> d] : d \in DefaultTables}

(***************************************************************************)
(* The state of one run.                                                   *)
(***************************************************************************)
\* the interpreter after main() has installed the signal handler, parsed
\* the arguments and set the global `silent'
start(silent) ==
    [silent |-> silent,
     pc |-> "open_files",
     exitStatus |-> 0,
     cause |-> "running",
     input_open |-> FALSE,
     output_open |-> FALSE,
     github_open |-> FALSE,
     checked |-> FALSE,
     input_data |-> <<>>,
     default |-> <<>>,
     output |-> <<>>,
     label |-> "",
     repos |-> <<>>,
     filetypes |-> <<>>,
     start |-> Epoch,
     end |-> Epoch,
     authors |-> <<>>,
     stat |-> 0,
     repo |-> 0,
     commits |-> {},
     commit |-> 0,
     files |-> {},
     queries |-> <<>>,
     sink |-> <<>>,
     stdout |-> <<>>,
     outfile |-> <<>>]

\* one piece of text: a line handed to print() (src "sink") or a write of
\* write_output (src "data")
Chunk(src, kind, row, table) ==
    [src |-> src, kind |-> kind, row |-> row, table |-> table]

\* print(): the line reaches the console, which is the standard output,
\* unless the run is silent; `sink' keeps every line print() was handed
print(s, kind, row, table) ==
    LET line == Chunk("sink", kind, row, table)
    IN  [s EXCEPT !.sink = Append(@, line),
                  !.stdout = IF s.silent THEN @ ELSE Append(@, line)]

\* exit(code): SystemExit ends the process where it stands
exit(s, code, cause) ==
    [s EXCEPT !.pc = "exited", !.exitStatus = code, !.cause = cause]

\* an exception nothing catches: the interpreter prints the traceback and
\* ends the process with status 1
uncaught(s) == exit(s, 1, "uncaught")

\* output_file.write(text): to the standard output, or to the opened file
write(s, text) ==
    IF args.output = OUT_STDOUT
    THEN [s EXCEPT !.stdout = Append(@, text)]
    ELSE [s EXCEPT !.outfile = Append(@, text)]

open_files(s) ==
    LET opened ==
          IF args.input = DASH
          THEN [print(s, "no input file provided", <<>>, <<>>)
                  EXCEPT !.input_open = TRUE]
          ELSE IF env.input_exists
          THEN [s EXCEPT !.input_open = TRUE]
          ELSE exit(print(s, "could not open input file", <<>>, <<>>),
                    1, "input_open")
    IN  IF opened.pc = "exited" THEN opened
        ELSE IF args.output = OUT_STDOUT \/ env.output_opens
        THEN [opened EXCEPT !.output_open = TRUE, !.pc = "parse"]
        ELSE exit(print(opened, "could not open output file", <<>>, <<>>),
                  2, "output_open")

\* input_data = toml.loads(input_file.read())
parse_input(s) ==
    IF args.input = DASH
    THEN [s EXCEPT !.input_data = DEFAULT_INPUT, !.pc = "filetype_check"]
    ELSE IF env.wellformed
    THEN [s EXCEPT !.input_data = env.document, !.pc = "filetype_check"]
    ELSE exit(print(s, "could not decode toml", <<>>, <<>>), 3, "parse")

\* filetype_check without the early return for '-'
filetype_check_no_dash(s, output_filename, stats_count) ==
    LET extension == split_last(output_filename)
        lossy ==
          IF extension = CSV /\ stats_count > 1
          THEN print(s, "only the last 'stats' will make it to the output",
                     <<>>, <<>>)
          ELSE s
    IN  IF ~ contains(<<TOML, JSON, CSV>>, extension)
        THEN print(lossy, "unsupported filetype", <<>>, <<>>)
        ELSE lossy

filetype_check(s, output_filename, stats_count) ==
    IF output_filename = OUT_STDOUT THEN s
    ELSE
      LET extension == split_last(output_filename)
          lossy ==
            IF extension = CSV /\ stats_count > 1
            THEN print(s, "only the last 'stats' will make it to the output",
                       <<>>, <<>>)
            ELSE s
      IN  IF ~ contains(<<TOML, JSON, CSV>>, extension)
          THEN print(lossy, "unsupported filetype", <<>>, <<>>)
          ELSE lossy

\* the call of filetype_check in main(); `checked' records that it returned
preflight(s) ==
    [filetype_check(s, args.output,
                    Len(trygetitem(<<s.input_data>>, "stats", <<>>)))
       EXCEPT !.checked = TRUE, !.pc = "setup"]

get_github(s) ==
    IF ~ env.token
    THEN [print(s, "using no api token is not recomended", <<>>, <<>>)
            EXCEPT !.github_open = TRUE]
    ELSE [s EXCEPT !.github_open = TRUE]

\* load_dotenv, get_github, default, output = {}, label = ""
setup(s) ==
    LET g == get_github(s)
    IN  [print(g, "starting", <<>>, <<>>)
           EXCEPT !.default = trygetitem(<<s.input_data>>, "default", <<>>),
                  !.output = <<>>,
                  !.label = "",
                  !.stat = 0,
                  !.pc = "stat"]

stats_of(s) == trygetitem(<<s.input_data>>, "stats", <<>>)

\* the head of the loop over the stats: the fields of the next one
begin_stat(s) ==
    LET stat == stats_of(s)[s.stat + 1]
        trytables == <<stat, s.default>>
        label == trygetitem(trytables, "label", "")
    IN  [print(s, "processing", <<<<label>>>>, <<>>)
           EXCEPT !.label = label,
                  !.repos = trygetitem(trytables, "repos", <<>>),
                  !.filetypes = trygetitem(trytables, "filetypes", <<>>),
                  !.start = trygetitem(trytables, "start_date", Epoch),
                  !.end = trygetitem(trytables, "end_date", Now),
                  !.authors = <<>>,
                  !.repo = 0,
                  !.pc = "repo"]

\* next_repo that goes on to the next repository when one does not resolve
next_repo_skip(s) ==
    LET repo_str == s.repos[s.repo + 1]
        asked == [print(s, "processing repo", <<<<repo_str>>>>, <<>>)
                    EXCEPT !.queries = Append(@, <<"get_repo", repo_str>>)]
    IN  IF ~ resolves(repo_str)
        THEN [print(asked, "unable to get", <<<<repo_str>>>>, <<>>)
                EXCEPT !.repo = @ + 1]
        ELSE [asked EXCEPT
                !.queries = Append(@, <<"get_commits", repo_str, s.start, s.end>>),
                !.commits = get_commits(repo_str, s.start, s.end),
                !.pc = "commit"]

\* the head of the loop over the repositories: resolve the next one and ask
\* for its commits
next_repo(s) ==
    LET repo_str == s.repos[s.repo + 1]
        asked == [print(s, "processing repo", <<<<repo_str>>>>, <<>>)
                    EXCEPT !.queries = Append(@, <<"get_repo", repo_str>>)]
    IN  IF ~ resolves(repo_str)
        THEN exit(print(asked, "unable to get", <<<<repo_str>>>>, <<>>),
                  4, "repo")
        ELSE [asked EXCEPT
                !.queries = Append(@, <<"get_commits", repo_str, s.start, s.end>>),
                !.commits = get_commits(repo_str, s.start, s.end),
                !.pc = "commit"]

\* the head of the loop over the commits, for the commit the remote yields
\* next
next_commit(s, c) ==
    LET commit == Commits(s.repos[s.repo + 1])[c]
        rest == [s EXCEPT !.commits = @ \ {c}]
    IN  IF ~ commit.hasAuthor THEN rest
        ELSE IF ~ commit.hasName THEN rest
        ELSE [rest EXCEPT !.commit = c,
                          !.files = 1..Len(commit.files),
                          !.pc = "file"]

print_filechange(s, filename, author, changes) ==
    print(s, "file", <<filename, <<author>>, str(changes)>>, <<>>)

\* visit_file that counts only what it reports
visit_file_silent(s, f) ==
    LET commit == Commits(s.repos[s.repo + 1])[s.commit]
        file == commit.files[f]
        rest == [s EXCEPT !.files = @ \ {f}]
    IN  IF ~ contains(s.filetypes, split_last(file.filename)) \/ s.silent
        THEN rest
        ELSE [print_filechange(rest, file.filename, commit.name, file.changes)
                EXCEPT !.authors = addornewitem(@, commit.name, file.changes)]

\* the body of the loop over the files of the commit, for file f
visit_file(s, f) ==
    LET commit == Commits(s.repos[s.repo + 1])[s.commit]
        file == commit.files[f]
        rest == [s EXCEPT !.files = @ \ {f}]
    IN  IF ~ contains(s.filetypes, split_last(file.filename))
        THEN rest
        ELSE [print_filechange(rest, file.filename, commit.name, file.changes)
                EXCEPT !.authors = addornewitem(@, commit.name, file.changes)]

\* the files of the commit are done
end_commit(s) == [s EXCEPT !.commit = 0, !.pc = "commit"]

\* the commits of the repository are done
end_repo(s) == [s EXCEPT !.repo = @ + 1, !.pc = "repo"]

RECURSIVE merged(_, _)
merged(into, tally) ==
    IF tally = <<>> THEN into
    ELSE merged(addornewitem(into, Head(tally).k, Head(tally).v), Tail(tally))

\* end_stat that adds the tally to the entry the label already has
end_stat_merge(s) ==
    [s EXCEPT !.output = IF s.label \in keys(@)
                         THEN setitem(@, s.label,
                                      merged(getitem(@, s.label), s.authors))
                         ELSE setitem(@, s.label, s.authors),
              !.stat = @ + 1,
              !.pc = "stat"]

\* the repositories of the stat are done: output[label] = authors
end_stat(s) ==
    [s EXCEPT !.output = setitem(@, s.label, s.authors),
              !.stat = @ + 1,
              !.pc = "stat"]

RECURSIVE write_rows(_, _)
\* csv_file.writerow([key, str(val)]) for each item of the tally
write_rows(s, tally) ==
    IF tally = <<>> THEN s
    ELSE write_rows(
           write(s, Chunk("data", "csv",
                          <<<<Head(tally).k>>, str(Head(tally).v)>>, <<>>)),
           Tail(tally))

write_output(s, output, output_filename, first_stat) ==
    LET extension == split_last(output_filename)
    IN  IF extension = TOML
        THEN write(s, Chunk("data", "toml", <<>>, output))
        ELSE IF extension = JSON
        THEN write(s, Chunk("data", "json", <<>>, output))
        ELSE IF extension = CSV
        THEN LET header == write(s, Chunk("data", "csv",
                                          <<<<"user">>, <<"contrib">>>>, <<>>))
             IN  IF first_stat \in keys(output)
                 THEN write_rows(header, getitem(output, first_stat))
                 ELSE uncaught(header)
        ELSE write(s, Chunk("data", "repr", <<>>, output))

\* finish that hands write_output the table's first label
finish_first_label(s) ==
    LET told == print(print(s, "done", <<>>, <<>>), "output", <<>>, s.output)
        first == IF s.output = <<>> THEN s.label ELSE s.output[1].k
        written == write_output(told, s.output, args.output, first)
    IN  IF written.pc = "exited" THEN written
        ELSE [written EXCEPT !.pc = "close"]

\* the end of the loop over the stats: report and serialize
finish(s) ==
    LET told == print(print(s, "done", <<>>, <<>>), "output", <<>>, s.output)
        written == write_output(told, s.output, args.output, s.label)
    IN  IF written.pc = "exited" THEN written
        ELSE [written EXCEPT !.pc = "close"]

\* input_file.close(); output_file.close(); github.close(); return; exit(0)
close_all(s) ==
    exit([s EXCEPT !.input_open = FALSE,
                   !.output_open = FALSE,
                   !.github_open = FALSE],
         0, "success")

handle_signal(s) ==
    exit(print(s, "caught ^C, exiting gracefully", <<>>, <<>>), 0, "interrupt")

(***************************************************************************)
(* The runs.                                                               *)
(***************************************************************************)
INPUT_PATH == "in.toml"

\* the input file the arguments name: absent, unparsable, or a document
InputFiles ==
    {[input |-> DASH, exists |-> TRUE, wellformed |-> TRUE,
      document |-> DEFAULT_INPUT],
     [input |-> INPUT_PATH, exists |-> FALSE, wellformed |-> TRUE,
      document |-> DEFAULT_INPUT],
     [input |-> INPUT_PATH, exists |-> TRUE, wellformed |-> FALSE,
      document |-> DEFAULT_INPUT]}
    \cup {[input |-> INPUT_PATH, exists |-> TRUE, wellformed |-> TRUE,
           document |-> d] : d \in Documents}

\* what both runs share, apart from the silent flag and the console
core(s) == [s EXCEPT !.silent = FALSE, !.stdout = <<>>]

\* the twin takes the step the run takes, as long as the two stand at the
\* same place
follow(t) == IF core(twin) = core(run) THEN t ELSE twin

Init ==
    \E in \in InputFiles, out \in OutputNames,
       opens \in BOOLEAN, token \in BOOLEAN, silent \in BOOLEAN :
        /\ out = OUT_STDOUT => opens
        /\ ~ opens => in.input = DASH
        /\ args = [input |-> in.input, output |-> out]
        /\ env = [input_exists |-> in.exists,
                  wellformed |-> in.wellformed,
                  document |-> in.document,
                  output_opens |-> opens,
                  token |-> token]
        /\ run = start(silent)
        /\ twin = start(~ silent)

OpenFiles ==
    /\ run.pc = "open_files"
    /\ run' = open_files(run)
    /\ twin' = follow(open_files(twin))
    /\ UNCHANGED <<args, env>>

ParseInput ==
    /\ run.pc = "parse"
    /\ run' = parse_input(run)
    /\ twin' = follow(parse_input(twin))
    /\ UNCHANGED <<args, env>>

FiletypeCheck ==
    /\ run.pc = "filetype_check"
    /\ run' = preflight(run)
    /\ twin' = follow(preflight(twin))
    /\ UNCHANGED <<args, env>>

Setup ==
    /\ run.pc = "setup"
    /\ run' = setup(run)
    /\ twin' = follow(setup(twin))
    /\ UNCHANGED <<args, env>>

BeginStat ==
    /\ run.pc = "stat"
    /\ run.stat < Len(stats_of(run))
    /\ run' = begin_stat(run)
    /\ twin' = follow(begin_stat(twin))
    /\ UNCHANGED <<args, env>>

NextRepo ==
    /\ run.pc = "repo"
    /\ run.repo < Len(run.repos)
    /\ run' = next_repo(run)
    /\ twin' = follow(next_repo(twin))
    /\ UNCHANGED <<args, env>>

NextCommit ==
    /\ run.pc = "commit"
    /\ \E c \in run.commits :
          /\ run' = next_commit(run, c)
          /\ twin' = follow(next_commit(twin, c))
    /\ UNCHANGED <<args, env>>

VisitFile ==
    /\ run.pc = "file"
    /\ \E f \in run.files :
          /\ run' = visit_file(run, f)
          /\ twin' = follow(visit_file(twin, f))
    /\ UNCHANGED <<args, env>>

EndCommit ==
    /\ run.pc = "file"
    /\ run.files = {}
    /\ run' = end_commit(run)
    /\ twin' = follow(end_commit(twin))
    /\ UNCHANGED <<args, env>>

EndRepo ==
    /\ run.pc = "commit"
    /\ run.commits = {}
    /\ run' = end_repo(run)
    /\ twin' = follow(end_repo(twin))
    /\ UNCHANGED <<args, env>>

EndStat ==
    /\ run.pc = "repo"
    /\ run.repo = Len(run.repos)
    /\ run' = end_stat(run)
    /\ twin' = follow(end_stat(twin))
    /\ UNCHANGED <<args, env>>

Finish ==
    /\ run.pc = "stat"
    /\ run.stat = Len(stats_of(run))
    /\ run' = finish(run)
    /\ twin' = follow(finish(twin))
    /\ UNCHANGED <<args, env>>

CloseAll ==
    /\ run.pc = "close"
    /\ run' = close_all(run)
    /\ twin' = follow(close_all(twin))
    /\ UNCHANGED <<args, env>>

\* SIGINT, at any point of the run
Interrupt ==
    /\ run.pc # "exited"
    /\ run' = handle_signal(run)
    /\ twin' = follow(handle_signal(twin))
    /\ UNCHANGED <<args, env>>

Next ==
    \/ OpenFiles
    \/ ParseInput
    \/ FiletypeCheck
    \/ Setup
    \/ BeginStat
    \/ NextRepo
    \/ NextCommit
    \/ VisitFile
    \/ EndCommit
    \/ EndRepo
    \/ EndStat
    \/ Finish
    \/ CloseAll
    \/ Interrupt

Spec == Init /\ [][Next]_vars

(***************************************************************************)
(* What the specification says, in its own terms.                          *)
(***************************************************************************)
NoDot(text) == \A i \in 1..Len(text) : text[i] # "."

\* e is what follows the last "." of name, or name itself when it has none
IsExtension(name, e) ==
    \/ NoDot(name) /\ e = name
    \/ \E k \in 1..Len(name) :
          /\ name[k] = "."
          /\ e = SubSeq(name, k + 1, Len(name))
          /\ NoDot(e)

AuthorNames ==
    UNION {{Commits(r)[c].name : c \in 1..Len(Commits(r))} : r \in {R1, R2}}

\* the fields stat j of the document resolves to
Job(s, j) ==
    LET tables == <<stats_of(s)[j], trygetitem(<<s.input_data>>, "default", <<>>)>>
    IN  [label |-> trygetitem(tables, "label", ""),
         repos |-> trygetitem(tables, "repos", <<>>),
         filetypes |-> trygetitem(tables, "filetypes", <<>>),
         start |-> trygetitem(tables, "start_date", Epoch),
         end |-> trygetitem(tables, "end_date", Now)]

\* the job the run is collecting for
CurrentJob(s) ==
    [label |-> s.label, repos |-> s.repos, filetypes |-> s.filetypes,
     start |-> s.start, end |-> s.end]

\* the (repository, commit, file) triples of a job that count for author A
Qualifying(job, A) ==
    {p \in UNION {UNION {{<<r, c, f>> :
                          f \in 1..Len(Commits(job.repos[r])[c].files)} :
                   c \in get_commits(job.repos[r], job.start, job.end)} :
            r \in 1..Len(job.repos)} :
        LET commit == Commits(job.repos[p[1]])[p[2]]
        IN  /\ commit.hasAuthor
            /\ commit.hasName
            /\ commit.name = A
            /\ \E i \in 1..Len(job.filetypes) :
                  IsExtension(commit.files[p[3]].filename, job.filetypes[i])}

RECURSIVE SumChanges(_, _)
SumChanges(job, P) ==
    IF P = {} THEN 0
    ELSE LET p == CHOOSE q \in P : TRUE
         IN  Commits(job.repos[p[1]])[p[2]].files[p[3]].changes
             + SumChanges(job, P \ {p})

ExpectedTotal(job, A) == SumChanges(job, Qualifying(job, A))

ExpectedTally(job) ==
    [A \in {B \in AuthorNames : Qualifying(job, B) # {}} |-> ExpectedTotal(job, A)]

\* an author's count in a tally, 0 for an author it does not hold
Total(tally, A) == IF A \in keys(tally) THEN getitem(tally, A) ELSE 0

\* a dict as a mapping, its order forgotten
ToMap(d) == [k \in keys(d) |-> getitem(d, k)]

Collected(s) == s.pc = "repo" /\ s.repo = Len(s.repos)

InJob(s) == s.pc \in {"repo", "commit", "file"}

HasLine(s, kind) == \E i \in 1..Len(s.sink) : s.sink[i].kind = kind

IsData(chunk) == chunk.src = "data"

IsSink(chunk) == chunk.src = "sink"

(***************************************************************************)
(* C1.  Once a job's repositories are all traversed, every author's count  *)
(* in the tally is the sum of the changes of the files that count for the  *)
(* author: files whose extension is configured, in commits that carry the  *)
(* author's name.  Commits without author or name add nothing and raise    *)
(* nothing, and the order in which commits and files were visited does     *)
(* not show in the counts.                                                 *)
(***************************************************************************)
C1_TallyIsSum ==
    /\ Collected(run) =>
          /\ \A A \in AuthorNames :
                Total(run.authors, A) = ExpectedTotal(CurrentJob(run), A)
          /\ keys(run.authors) \subseteq AuthorNames \ {""}
          /\ run.commits = {} /\ run.files = {}
    /\ InJob(run) => run.cause = "running"

\* both authors counted, the later commit of the list visited first, and a
\* commit without author in the window
C1_Witness ==
    /\ Collected(run)
    /\ Len(run.authors) = 2
    /\ run.authors[1].k = "Alice"
    /\ run.authors[2] = [k |-> "Bob", v |-> 4]
    /\ \E c \in get_commits(R1, run.start, run.end) : ~ Commits(R1)[c].hasAuthor

(***************************************************************************)
(* C2.  Each field of a stat group resolves to the group's own value when  *)
(* the group has the key, else to the default block's, else to the         *)
(* hard-coded default; setting or removing any other key of the group      *)
(* leaves the field's resolution as it is.                                 *)
(***************************************************************************)
HardDefault(f) ==
    CASE f = "label" -> ""
      [] f = "repos" -> <<>>
      [] f = "filetypes" -> <<>>
      [] f = "start_date" -> Epoch
      [] f = "end_date" -> Now

Resolved(s, f) ==
    CASE f = "label" -> s.label
      [] f = "repos" -> s.repos
      [] f = "filetypes" -> s.filetypes
      [] f = "start_date" -> s.start
      [] f = "end_date" -> s.end

OtherValues(g) ==
    CASE g = "label" -> {"a", "zz"}
      [] g = "repos" -> {<<>>, <<R2>>}
      [] g = "filetypes" -> {<<PY>>, <<>>}
      [] g = "start_date" -> {Epoch, 1}
      [] g = "end_date" -> {1, Now}

\* the stat group with key g set, and with key g removed
Overrides(stat, g) ==
    {[k \in DOMAIN stat \cup {g} |-> IF k = g THEN v ELSE stat[k]] :
        v \in OtherValues(g)}
    \cup {[k \in DOMAIN stat \ {g} |-> stat[k]]}

C2_FieldFallback ==
    InJob(run) =>
      LET stat == stats_of(run)[run.stat + 1]
          default == trygetitem(<<run.input_data>>, "default", <<>>)
      IN  \A f \in Fields :
            /\ Resolved(run, f) =
                  IF f \in DOMAIN stat THEN stat[f]
                  ELSE IF f \in DOMAIN default THEN default[f]
                  ELSE HardDefault(f)
            /\ run.pc = "repo" /\ run.repo = 0 =>
                  \A g \in Fields \ {f} : \A other \in Overrides(stat, g) :
                      trygetitem(<<other, default>>, f, HardDefault(f))
                        = Resolved(run, f)

\* one job with a field of its own, one from the default block and one
\* hard-coded
C2_Witness ==
    /\ InJob(run)
    /\ "label" \in DOMAIN stats_of(run)[run.stat + 1]
    /\ "repos" \notin DOMAIN stats_of(run)[run.stat + 1]
    /\ "repos" \in DOMAIN run.default
    /\ run.repos = <<R1>>
    /\ run.label = "a"
    /\ run.start = Epoch
    /\ "start_date" \notin DOMAIN run.default

(***************************************************************************)
(* C3.  The table holds one entry per label of the jobs processed so far,  *)
(* and a label's entry is the tally of the last processed job that carries *)
(* the label, with nothing of an earlier job in it.                        *)
(***************************************************************************)
LabelsDone(s) == {Job(s, j).label : j \in 1..s.stat}

LastWith(s, l) == Max({j \in 1..s.stat : Job(s, j).label = l})

C3_LastWriteWins ==
    /\ keys(run.output) = LabelsDone(run)
    /\ Len(run.output) = Cardinality(LabelsDone(run))
    /\ \A l \in LabelsDone(run) :
          ToMap(getitem(run.output, l)) = ExpectedTally(Job(run, LastWith(run, l)))

\* two jobs of one label and different tallies, both processed
C3_Witness ==
    /\ run.stat = 2
    /\ Job(run, 1).label = Job(run, 2).label
    /\ ExpectedTally(Job(run, 1)) # <<>>
    /\ ExpectedTally(Job(run, 2)) # <<>>
    /\ ExpectedTally(Job(run, 1)) # ExpectedTally(Job(run, 2))
    /\ Len(run.output) = 1

(***************************************************************************)
(* C4.  With a csv target and more than one job, what is written is the    *)
(* header row user,contrib and then one row per author of the last job's   *)
(* tally, the count in decimal; no row comes from another job.             *)
(***************************************************************************)
RECURSIVE DecimalValue(_)
DecimalValue(digits) ==
    IF digits = <<>> THEN 0
    ELSE 10 * DecimalValue(SubSeq(digits, 1, Len(digits) - 1))
         + ((CHOOSE i \in 1..10 : Digits[i] = digits[Len(digits)]) - 1)

IsDecimalOf(digits, n) ==
    /\ digits # <<>>
    /\ Len(digits) > 1 => digits[1] # "0"
    /\ DecimalValue(digits) = n

Serialized(s) == s.pc = "close" \/ (s.pc = "exited" /\ s.cause = "success")

C4_CsvLastJobOnly ==
    (Serialized(run) /\ split_last(args.output) = CSV /\ Len(stats_of(run)) > 1) =>
      LET tally == ExpectedTally(Job(run, Len(stats_of(run))))
          rows == run.outfile
      IN  /\ Len(rows) = 1 + Cardinality(DOMAIN tally)
          /\ rows[1] = Chunk("data", "csv", <<<<"user">>, <<"contrib">>>>, <<>>)
          /\ \A i \in 2..Len(rows) :
                /\ rows[i].src = "data" /\ rows[i].kind = "csv"
                /\ Len(rows[i].row) = 2
                /\ \E A \in DOMAIN tally :
                      /\ rows[i].row[1] = <<A>>
                      /\ IsDecimalOf(rows[i].row[2], tally[A])
          /\ \A A \in DOMAIN tally : \E i \in 2..Len(rows) : rows[i].row[1] = <<A>>

\* two jobs of different labels, the first with two authors, the last with
\* one: header and one row
C4_Witness ==
    /\ Serialized(run)
    /\ args.output = OUT_CSV
    /\ Len(stats_of(run)) = 2
    /\ Len(run.output) = 2
    /\ Len(run.output[1].v) = 2
    /\ run.output[2].v = <<[k |-> "Alice", v |-> 9]>>
    /\ Len(run.outfile) = 2
    /\ run.outfile[2].row = <<<<"Alice">>, <<"9">>>>

(***************************************************************************)
(* C5.  A run whose document has an empty stats list, or no stats key,     *)
(* issues no remote query, comes to the serialization with an empty table, *)
(* raises nothing and ends with status 0, whatever the output target.      *)
(***************************************************************************)
\* the run ended by itself after its document was parsed
EndedAfterParse(s) ==
    s.pc = "exited" /\ s.cause \in {"success", "uncaught", "repo"}

C5_EmptyStatsSucceed ==
    (EndedAfterParse(run) /\ Len(stats_of(run)) = 0) =>
      /\ run.cause = "success"
      /\ run.exitStatus = 0
      /\ run.queries = <<>>
      /\ run.output = <<>>

(***************************************************************************)
(* C6.  A repository that does not resolve ends the run there with status  *)
(* 4: the failed get_repo is the last query of the run, and nothing is     *)
(* ever serialized, also when earlier jobs have stored their tallies.      *)
(***************************************************************************)
Unresolved(q) == q[1] = "get_repo" /\ ~ resolves(q[2])

C6_UnresolvedRepoAborts ==
    /\ \A i \in 1..Len(run.queries) :
          Unresolved(run.queries[i]) =>
            /\ i = Len(run.queries)
            /\ run.pc = "exited"
            /\ run.cause = "repo"
    /\ run.cause = "repo" =>
          /\ run.pc = "exited"
          /\ run.exitStatus = 4
          /\ run.queries # <<>>
          /\ Unresolved(run.queries[Len(run.queries)])
          /\ run.outfile = <<>>
          /\ SelectSeq(run.stdout, IsData) = <<>>
          /\ ~ HasLine(run, "done")
          /\ run.queries[Len(run.queries)][2] = run.repos[run.repo + 1]

\* the second repository of the second job fails, a third one is listed
\* after it, and the first job's tally is in the table
C6_Witness ==
    /\ run.cause = "repo"
    /\ run.stat = 1
    /\ Len(run.output) = 1
    /\ run.output[1].v # <<>>
    /\ run.repo = 1
    /\ Len(run.repos) = 3
    /\ Len(run.queries) > 3

(***************************************************************************)
(* C7.  The exit status of a run names its outcome: 1 the input that could *)
(* not be opened, 2 the output that could not be opened, 3 the document    *)
(* that could not be parsed, 4 the repository that could not be resolved,  *)
(* 0 success and the interrupt; no status is reached for another cause.    *)
(***************************************************************************)
C7_StatusNamesCause ==
    run.pc = "exited" =>
      /\ run.exitStatus = 1 <=> run.cause = "input_open"
      /\ run.exitStatus = 2 <=> run.cause = "output_open"
      /\ run.exitStatus = 3 <=> run.cause = "parse"
      /\ run.exitStatus = 4 <=> run.cause = "repo"
      /\ run.exitStatus = 0 <=> run.cause \in {"success", "interrupt"}

(***************************************************************************)
(* C8.  An interrupt ends the run with status 0, no query follows it, and  *)
(* the input file, the output file and the client are closed on that path. *)
(***************************************************************************)
C8_InterruptReleases ==
    run.cause = "interrupt" =>
      /\ run.pc = "exited"
      /\ run.exitStatus = 0
      /\ ~ run.input_open
      /\ ~ run.output_open
      /\ ~ run.github_open

(***************************************************************************)
(* C9.  The pre-flight check comes before the first remote query.  It      *)
(* warns that rows are lost when the target is csv and more than one job   *)
(* is configured, and it gives another warning when the target is not one  *)
(* of toml, json, csv.  Neither warning changes anything else of the run.  *)
(* As the claim has it, a run that writes to the standard output is warned *)
(* too.                                                                    *)
(***************************************************************************)
LOSSY == "only the last 'stats' will make it to the output"
UNSUPPORTED == "unsupported filetype"

RecognizedTarget == \E e \in {TOML, JSON, CSV} : IsExtension(args.output, e)

LossyTarget == IsExtension(args.output, CSV) /\ Len(stats_of(run)) > 1

C9_WarnsEveryUnrecognizedTarget ==
    /\ run.queries # <<>> => run.checked
    /\ run.checked =>
          /\ LossyTarget => HasLine(run, LOSSY)
          /\ ~ RecognizedTarget => HasLine(run, UNSUPPORTED)

(***************************************************************************)
(* C9, amended.  The check comes before the first remote query; it hands   *)
(* the sink the lossy-format warning exactly when the output is a path     *)
(* whose extension is csv and more than one job is configured, and the     *)
(* unsupported-filetype warning exactly when the output is a path whose    *)
(* extension is none of toml, json, csv; a run that writes to the standard *)
(* output gets neither.  The check changes nothing but what the sink was   *)
(* handed.                                                                 *)
(***************************************************************************)
\* the state without what print() leaves and without the check's own mark
Unwarned(s) ==
    [s EXCEPT !.sink = <<>>, !.stdout = <<>>, !.checked = FALSE, !.pc = "-"]

C9_PreflightWarnings ==
    /\ run.queries # <<>> => run.checked
    /\ ~ run.checked => ~ HasLine(run, LOSSY) /\ ~ HasLine(run, UNSUPPORTED)
    /\ run.checked =>
          /\ HasLine(run, LOSSY) <=> (args.output # OUT_STDOUT /\ LossyTarget)
          /\ HasLine(run, UNSUPPORTED) <=>
                (args.output # OUT_STDOUT /\ ~ RecognizedTarget)
    /\ run.pc = "setup" =>
          Unwarned(run) = Unwarned(parse_input(open_files(start(run.silent))))

\* a csv target and two jobs: the warning was given, and then a query made
C9_Witness ==
    /\ run.checked
    /\ HasLine(run, LOSSY)
    /\ ~ HasLine(run, UNSUPPORTED)
    /\ Len(run.queries) = 2
    /\ run.sink[1].kind = LOSSY

(***************************************************************************)
(* C10.  Two runs that differ only in the silent flag issue the same       *)
(* queries, build the same table, end with the same status and leave the   *)
(* same bytes on the output target.  Stated for the runs that come to      *)
(* their end by serializing the table.                                     *)
(***************************************************************************)
\* what the output target holds
TargetText(s) == IF args.output = OUT_STDOUT THEN s.stdout ELSE s.outfile

====
